---- MODULE Spec2Model ----
(***************************************************************************)
(* A model of the transcript-acquisition and summarization pipeline:       *)
(*   utils/transcript_fetcher.py  extract_video_id, get_video_transcript,  *)
(*                                get_multiple_video_transcripts           *)
(*   utils/llm_handler.py         LLMConfig, create_summarization_prompt,  *)
(*                                summarize_text_with_llm                  *)
(*   utils/youtube_api.py         get_subscriber_updates                   *)
(*   main.py                      main                                     *)
(* Python strings are TLA+ strings; an Optional value is <<>> (None) or    *)
(* <<v>>.  The program is single-threaded: one entry point runs at a time  *)
(* and every call it makes is stepped to its return or its exception.      *)
(***************************************************************************)
EXTENDS Integers, Sequences, FiniteSets, TLC

VARIABLES
    op,          \* the entry point that was called ("idle" before any call)
    done,        \* the entry point has returned or an exception left it
    ret,         \* Optional: the value the entry point returned
    raised,      \* Optional: the exception that left the entry point
    tpc,         \* get_video_transcript: position of the running call
    tframe,      \* get_video_transcript: its arguments and locals
    world,       \* the transcript provider's behaviour for the running call
    calls,       \* the transcript provider calls made by the running call
    t_result,    \* Optional: the dict get_video_transcript returned
    t_exc,       \* Optional: the exception that left get_video_transcript
    batch,       \* get_multiple_video_transcripts: arguments, loop state, log
    spc,         \* summarize_text_with_llm: position of the running call
    sframe,      \* summarize_text_with_llm: its arguments and locals
    llm,         \* the process environment and the completion provider
    requests,    \* the requests dispatched to the completion provider
    s_result,    \* Optional: the dict summarize_text_with_llm returned
    s_exc,       \* Optional: the exception that left summarize_text_with_llm
    mpc,         \* main: position
    mframe,      \* main: its locals
    output,      \* the lines printed to the console, in order
    args         \* the arguments the entry point was called with

vars == <<op, done, ret, raised, tpc, tframe, world, calls, t_result, t_exc, batch,
          spc, sframe, llm, requests, s_result, s_exc, mpc, mframe, output, args>>

tvars == <<tpc, tframe, world, calls, t_result, t_exc>>
svars == <<spc, sframe, llm, requests, s_result, s_exc>>
mvars == <<mpc, mframe, output>>

None == <<>>
Some(v) == <<v>>
Val(o) == o[1]

-----------------------------------------------------------------------------
(* Strings *)

Ch(s, i) == SubSeq(s, i, i)

StartsWithAt(s, i, p) ==
    /\ i + Len(p) - 1 <= Len(s)
    /\ SubSeq(s, i, i + Len(p) - 1) = p

startswith(s, p) == StartsWithAt(s, 1, p)

Whitespace == {" ", "\n", "\t", "\r"}

RECURSIVE LStripFrom(_, _)
LStripFrom(s, i) ==
    IF i <= Len(s) /\ Ch(s, i) \in Whitespace THEN LStripFrom(s, i + 1) ELSE i

RECURSIVE RStripTo(_, _)
RStripTo(s, j) ==
    IF j >= 1 /\ Ch(s, j) \in Whitespace THEN RStripTo(s, j - 1) ELSE j

\* str.strip()
strip(s) == SubSeq(s, LStripFrom(s, 1), RStripTo(s, Len(s)))

\* s[:n]
Slice(s, n) == SubSeq(s, 1, IF Len(s) < n THEN Len(s) ELSE n)

RECURSIVE Rep(_, _)
Rep(s, n) == IF n = 0 THEN "" ELSE s \o Rep(s, n - 1)

Contains(s, p) == \E i \in 1..(Len(s) + 1) : StartsWithAt(s, i, p)

-----------------------------------------------------------------------------
(* extract_video_id *)

IdLen == 11

Upper == {"A","B","C","D","E","F","G","H","I","J","K","L","M",
          "N","O","P","Q","R","S","T","U","V","W","X","Y","Z"}
Lower == {"a","b","c","d","e","f","g","h","i","j","k","l","m",
          "n","o","p","q","r","s","t","u","v","w","x","y","z"}
Digit == {"0","1","2","3","4","5","6","7","8","9"}
IdAlphabet == Upper \cup Lower \cup Digit \cup {"_", "-"}

\* the class [^&\n?#]
Excluded == {"&", "\n", "?", "#"}

\* ([^&\n?#]+) at i: the index of the last character of the greedy run
RECURSIVE RunEnd(_, _)
RunEnd(s, i) ==
    IF i <= Len(s) /\ Ch(s, i) \notin Excluded THEN RunEnd(s, i + 1) ELSE i - 1

\* a variant without the embed shape
UrlPrefixes_NoEmbed == <<"youtube.com/watch?v=", "youtu.be/", "youtube.com/v/">>

UrlPrefixes == <<"youtube.com/watch?v=", "youtu.be/", "youtube.com/embed/", "youtube.com/v/">>

\* the first pattern matched at position i: Optional capture
Pattern1At(s, i) ==
    LET hits == {k \in 1..Len(UrlPrefixes) :
                    /\ StartsWithAt(s, i, UrlPrefixes[k])
                    /\ RunEnd(s, i + Len(UrlPrefixes[k])) >= i + Len(UrlPrefixes[k])}
    IN IF hits = {} THEN None
       ELSE LET k == CHOOSE k \in hits : \A h \in hits : k <= h
                b == i + Len(UrlPrefixes[k])
            IN Some(SubSeq(s, b, RunEnd(s, b)))

WatchPrefix == "youtube.com/watch?"

\* the index of the last character of the line that position i starts
RECURSIVE LineEnd(_, _)
LineEnd(s, i) ==
    IF i <= Len(s) /\ Ch(s, i) # "\n" THEN LineEnd(s, i + 1) ELSE i - 1

\* the second pattern matched at position i: .* is greedy and stays on the line
Pattern2At(s, i) ==
    IF ~StartsWithAt(s, i, WatchPrefix) THEN None
    ELSE LET b == i + Len(WatchPrefix)
             hits == {j \in b..(LineEnd(s, b) + 1) :
                         /\ StartsWithAt(s, j, "v=")
                         /\ RunEnd(s, j + 2) >= j + 2}
         IN IF hits = {} THEN None
            ELSE LET j == CHOOSE j \in hits : \A h \in hits : j >= h
                 IN Some(SubSeq(s, j + 2, RunEnd(s, j + 2)))

\* the least element of a non-empty set of positions
Leftmost(at) == CHOOSE i \in at : \A h \in at : i <= h

\* re.search(patterns[0], s): the match at the leftmost position that has one
ReSearch1(s) ==
    LET at == {i \in 1..Len(s) : Pattern1At(s, i) # None}
    IN IF at = {} THEN None ELSE Pattern1At(s, Leftmost(at))

\* re.search(patterns[1], s)
ReSearch2(s) ==
    LET at == {i \in 1..Len(s) : Pattern2At(s, i) # None}
    IN IF at = {} THEN None ELSE Pattern2At(s, Leftmost(at))

\* re.match(r'^[a-zA-Z0-9_-]{11}$', url): $ also matches before a final newline
IsBareId(s) ==
    /\ Len(s) = IdLen \/ (Len(s) = IdLen + 1 /\ Ch(s, IdLen + 1) = "\n")
    /\ \A i \in 1..IdLen : Ch(s, i) \in IdAlphabet

extract_video_id(url) ==
    IF ReSearch1(url) # None THEN ReSearch1(url)
    ELSE IF ReSearch2(url) # None THEN ReSearch2(url)
    ELSE IF IsBareId(url) THEN Some(url)
    ELSE None

\* the shape the specification gives a canonical identifier
IsCanonical(s) == Len(s) = IdLen /\ \A i \in 1..IdLen : Ch(s, i) \in IdAlphabet

-----------------------------------------------------------------------------
(* Inputs of extract_video_id *)

\* identifiers that between them use every character of the alphabet
SampleIds ==
    {"dQw4w9WgXcQ", "a-b_c-d_e-Z", "0123456789_", "ABCDEFGHIJK", "LMNOPQRSTUV",
     "WXYZabcdefg", "hijklmnopqr", "stuvwxyz-_-"}

Schemes == {"", "https://", "https://www."}
Markers == {"", "youtube.com/watch?v=", "youtu.be/", "youtube.com/embed/",
            "youtube.com/v/", "youtube.com/watch?t=1&v=", "youtube.com/watch?v=&v="}
Bodies == SampleIds \cup {"", "abc", "dQw4w9WgXcQ123", "dQw4w9WgXc!", "dQw4w9WgXcQ\n"}
Suffixes == {"", "&t=42", "?si=x", "#top", "/more"}

References ==
    {sc \o mk \o bd \o sf : sc \in Schemes, mk \in Markers, bd \in Bodies, sf \in Suffixes}
    \cup {"not a video"}

-----------------------------------------------------------------------------
(* The transcript provider (youtube_transcript_api), as the adapter sees it *)

Track(l, g) == [language_code |-> l, is_generated |-> g]

\* a video's tracks in the order the provider enumerates them: authored, then generated
TrackLists ==
    { <<>>,
      <<Track("es", FALSE), Track("fr", FALSE)>>,
      <<Track("fr", FALSE), Track("en", TRUE)>>,
      <<Track("de", FALSE)>>,
      <<Track("en", TRUE)>>,
      <<Track("en", FALSE), Track("en", TRUE)>>,
      <<Track("es", TRUE), Track("en", TRUE)>> }

Entry(s, d, t) == [start |-> s, duration |-> d, text |-> t]

EntryLists == { <<>>, <<Entry(0, 2, "hello"), Entry(2, 3, "world")>> }

ListErrors == {"TranscriptsDisabled", "VideoUnavailable"}
FetchErrors == {"RequestBlocked"}

World(le, tr, fe, en) == [list_error |-> le, tracks |-> tr, fetch_error |-> fe, entries |-> en]

Worlds ==
    {World(Some(m), <<>>, None, <<>>) : m \in ListErrors}
    \cup {World(None, tr, Some(m), <<>>) : tr \in TrackLists, m \in FetchErrors}
    \cup {World(None, tr, None, en) : tr \in TrackLists, en \in EntryLists}

NoWorld == World(None, <<>>, None, <<>>)

\* the lowest index of a track of the language, generated or authored; 0 when none
FirstTrack(tracks, lang, generated) ==
    LET hits == {k \in 1..Len(tracks) :
                    tracks[k].language_code = lang /\ tracks[k].is_generated = generated}
    IN IF hits = {} THEN 0 ELSE Leftmost(hits)

\* TranscriptList.find_transcript([lang]): authored first, then generated
find_transcript(tracks, lang) ==
    IF FirstTrack(tracks, lang, FALSE) # 0 THEN FirstTrack(tracks, lang, FALSE)
    ELSE FirstTrack(tracks, lang, TRUE)

\* TranscriptList.find_generated_transcript([lang])
find_generated_transcript(tracks, lang) == FirstTrack(tracks, lang, TRUE)

\* one call of the provider, as logged in calls
Call(fn, arg, ok, msg) == [fn |-> fn, arg |-> arg, ok |-> ok, msg |-> msg]

\* TextFormatter.format_transcript: the entries' texts joined by newlines
RECURSIVE format_transcript(_)
format_transcript(entries) ==
    IF entries = <<>> THEN ""
    ELSE IF Len(entries) = 1 THEN entries[1].text
    ELSE entries[1].text \o "\n" \o format_transcript(Tail(entries))

-----------------------------------------------------------------------------
(* get_video_transcript *)

DefaultLanguages == <<"en", "en-US", "en-GB">>

\* the languages argument: None, or a list
LanguageArgs == {None, Some(<<>>), Some(<<"en", "es">>), Some(<<"fr">>), Some(<<"es", "en">>)}

FetchReferences ==
    {"dQw4w9WgXcQ", "https://www.youtube.com/watch?v=a-b_c-d_e-Z", "https://youtu.be/abc",
     "not a video", "", "dQw4w9WgXcQ1"}

NoTFrame ==
    [video_url_or_id |-> "", languages |-> <<>>, video_id |-> None, lang_i |-> 0,
     transcript |-> 0, used_language |-> None]

\* a variant that leaves the error field empty
FailureResult_NoError(err, vid) ==
    [success |-> FALSE, error |-> None, video_id |-> vid,
     transcript |-> None, language |-> None]

FailureResult(err, vid) ==
    [success |-> FALSE, error |-> Some(err), video_id |-> vid,
     transcript |-> None, language |-> None]

SuccessResult(vid, entries, lang) ==
    [success |-> TRUE, error |-> None, video_id |-> vid,
     transcript |-> Some(format_transcript(entries)),
     structured_transcript |-> entries,
     language |-> lang,
     length_chars |-> Len(format_transcript(entries)),
     length_entries |-> Len(entries)]

InvalidReferenceError == "Invalid YouTube URL or video ID"
NoTranscriptsError == "No transcripts available for this video"

\* a variant that takes the raw reference as the id when nothing can be extracted
GVT_Enter_RawReference(ref, langs, w) ==
    LET vid == IF extract_video_id(ref) = None THEN Some(ref) ELSE extract_video_id(ref)
    IN /\ world' = w
       /\ calls' = <<>>
       /\ t_exc' = None
       /\ tframe' = [NoTFrame EXCEPT !.video_url_or_id = ref,
                                     !.languages = IF langs = None THEN DefaultLanguages
                                                   ELSE Val(langs),
                                     !.video_id = vid,
                                     !.lang_i = 1]
       /\ IF vid = None \/ vid = Some("")
          THEN /\ t_result' = Some(FailureResult(InvalidReferenceError, None))
               /\ tpc' = "ret"
          ELSE /\ t_result' = None
               /\ tpc' = "list"

\* lines 47-63: resolve the reference and default the languages
GVT_Enter(ref, langs, w) ==
    LET vid == extract_video_id(ref)
    IN /\ world' = w
       /\ calls' = <<>>
       /\ t_exc' = None
       /\ tframe' = [NoTFrame EXCEPT !.video_url_or_id = ref,
                                     !.languages = IF langs = None THEN DefaultLanguages
                                                   ELSE Val(langs),
                                     !.video_id = vid,
                                     !.lang_i = 1]
       /\ IF vid = None \/ vid = Some("")
          THEN /\ t_result' = Some(FailureResult(InvalidReferenceError, None))
               /\ tpc' = "ret"
          ELSE /\ t_result' = None
               /\ tpc' = "list"

\* lines 65-71: list_transcripts; a failure goes to the handler of lines 136-144
GVT_List ==
    /\ tpc = "list"
    /\ IF world.list_error # None
       THEN /\ calls' = Append(calls, Call("list_transcripts", Val(tframe.video_id), FALSE,
                                           Val(world.list_error)))
            /\ t_result' = Some(FailureResult(Val(world.list_error), tframe.video_id))
            /\ tpc' = "ret"
       ELSE /\ calls' = Append(calls, Call("list_transcripts", Val(tframe.video_id), TRUE, ""))
            /\ t_result' = None
            /\ tpc' = "prefs"
    /\ UNCHANGED <<tframe, world, t_exc>>

\* a variant that walks the preference list from its end
GVT_TryLanguage_Reversed ==
    /\ tpc = "prefs"
    /\ tframe.lang_i <= Len(tframe.languages)
    /\ LET lang == tframe.languages[Len(tframe.languages) + 1 - tframe.lang_i]
           k == find_transcript(world.tracks, lang)
       IN IF k # 0
          THEN /\ calls' = Append(calls, Call("find_transcript", lang, TRUE, ""))
               /\ tframe' = [tframe EXCEPT !.transcript = k, !.used_language = Some(lang)]
               /\ tpc' = "fetch"
          ELSE /\ calls' = Append(calls, Call("find_transcript", lang, FALSE, "NoTranscriptFound"))
               /\ tframe' = [tframe EXCEPT !.lang_i = @ + 1]
               /\ tpc' = "prefs"
    /\ UNCHANGED <<world, t_result, t_exc>>

\* lines 74-82: one turn of the loop over the preferred languages
GVT_TryLanguage ==
    /\ tpc = "prefs"
    /\ tframe.lang_i <= Len(tframe.languages)
    /\ LET lang == tframe.languages[tframe.lang_i]
           k == find_transcript(world.tracks, lang)
       IN IF k # 0
          THEN /\ calls' = Append(calls, Call("find_transcript", lang, TRUE, ""))
               /\ tframe' = [tframe EXCEPT !.transcript = k, !.used_language = Some(lang)]
               /\ tpc' = "fetch"
          ELSE /\ calls' = Append(calls, Call("find_transcript", lang, FALSE, "NoTranscriptFound"))
               /\ tframe' = [tframe EXCEPT !.lang_i = @ + 1]
               /\ tpc' = "prefs"
    /\ UNCHANGED <<world, t_result, t_exc>>

\* a variant that takes the first enumerated track before looking for generated English
GVT_Fallback_FirstTrackFirst ==
    /\ tpc = "prefs"
    /\ tframe.lang_i > Len(tframe.languages)
    /\ IF world.tracks # <<>>
       THEN /\ calls' = calls \o
                  <<Call("find_generated_transcript", "en", FALSE, "NoTranscriptFound"),
                    Call("iterate", "", TRUE, "")>>
            /\ tframe' = [tframe EXCEPT !.transcript = 1,
                                        !.used_language = Some(world.tracks[1].language_code)]
            /\ t_result' = None
            /\ tpc' = "fetch"
       ELSE /\ calls' = calls \o
                  <<Call("find_generated_transcript", "en", FALSE, "NoTranscriptFound"),
                    Call("iterate", "", TRUE, "")>>
            /\ tframe' = tframe
            /\ t_result' = Some(FailureResult(NoTranscriptsError, tframe.video_id))
            /\ tpc' = "ret"
    /\ UNCHANGED <<world, t_exc>>

\* lines 85-105: no preferred language was found
GVT_Fallback ==
    /\ tpc = "prefs"
    /\ tframe.lang_i > Len(tframe.languages)
    /\ LET g == find_generated_transcript(world.tracks, "en")
       IN IF g # 0
          THEN /\ calls' = Append(calls, Call("find_generated_transcript", "en", TRUE, ""))
               /\ tframe' = [tframe EXCEPT !.transcript = g,
                                           !.used_language = Some("en (auto-generated)")]
               /\ t_result' = None
               /\ tpc' = "fetch"
          ELSE IF world.tracks # <<>>
          THEN /\ calls' = calls \o
                     <<Call("find_generated_transcript", "en", FALSE, "NoTranscriptFound"),
                       Call("iterate", "", TRUE, "")>>
               /\ tframe' = [tframe EXCEPT !.transcript = 1,
                                           !.used_language = Some(world.tracks[1].language_code)]
               /\ t_result' = None
               /\ tpc' = "fetch"
          ELSE /\ calls' = calls \o
                     <<Call("find_generated_transcript", "en", FALSE, "NoTranscriptFound"),
                       Call("iterate", "", TRUE, "")>>
               /\ tframe' = tframe
               /\ t_result' = Some(FailureResult(NoTranscriptsError, tframe.video_id))
               /\ tpc' = "ret"
    /\ UNCHANGED <<world, t_exc>>

\* a variant whose fetch is outside the try block
GVT_Fetch_Uncaught ==
    /\ tpc = "fetch"
    /\ LET code == world.tracks[tframe.transcript].language_code
       IN IF world.fetch_error # None
          THEN /\ calls' = Append(calls, Call("fetch", code, FALSE, Val(world.fetch_error)))
               /\ t_result' = None
               /\ t_exc' = world.fetch_error
               /\ tpc' = "raise"
          ELSE /\ calls' = Append(calls, Call("fetch", code, TRUE, ""))
               /\ t_result' = Some(SuccessResult(tframe.video_id, world.entries,
                                                 tframe.used_language))
               /\ t_exc' = None
               /\ tpc' = "ret"
    /\ UNCHANGED <<tframe, world>>

\* lines 107-144: fetch the chosen track, format it, build the result
GVT_Fetch ==
    /\ tpc = "fetch"
    /\ LET code == world.tracks[tframe.transcript].language_code
       IN IF world.fetch_error # None
          THEN /\ calls' = Append(calls, Call("fetch", code, FALSE, Val(world.fetch_error)))
               /\ t_result' = Some(FailureResult(Val(world.fetch_error), tframe.video_id))
          ELSE /\ calls' = Append(calls, Call("fetch", code, TRUE, ""))
               /\ t_result' = Some(SuccessResult(tframe.video_id, world.entries,
                                                 tframe.used_language))
    /\ tpc' = "ret"
    /\ UNCHANGED <<tframe, world, t_exc>>

-----------------------------------------------------------------------------
(* Entry points *)

\* a call of extract_video_id(url)
Call_extract_video_id ==
    /\ op = "idle"
    /\ \E url \in References :
          /\ args' = <<url>>
          /\ ret' = Some(extract_video_id(url))
    /\ op' = "extract_video_id"
    /\ done' = TRUE
    /\ UNCHANGED <<raised, tvars, batch, svars, mvars>>

\* a call of get_video_transcript(video_url_or_id, languages)
Call_get_video_transcript ==
    /\ op = "idle"
    /\ \E ref \in FetchReferences, langs \in LanguageArgs, w \in Worlds :
          /\ args' = <<ref, langs>>
          /\ GVT_Enter(ref, langs, w)
    /\ op' = "get_video_transcript"
    /\ UNCHANGED <<done, ret, raised, batch, svars, mvars>>

\* the call returns its dict, or its exception leaves it
Return_get_video_transcript ==
    /\ op = "get_video_transcript"
    /\ tpc \in {"ret", "raise"}
    /\ ret' = t_result
    /\ raised' = t_exc
    /\ done' = TRUE
    /\ tpc' = "idle"
    /\ UNCHANGED <<op, args, tframe, world, calls, t_result, t_exc, batch, svars, mvars>>

notT == <<op, done, ret, raised, args, batch, svars, mvars>>

Step_list_transcripts == GVT_List /\ UNCHANGED notT
Step_find_transcript == GVT_TryLanguage /\ UNCHANGED notT
Step_fallback == GVT_Fallback /\ UNCHANGED notT
Step_fetch == GVT_Fetch /\ UNCHANGED notT

-----------------------------------------------------------------------------
(* get_multiple_video_transcripts *)

MaxBatch == 3

BatchReferences == {"dQw4w9WgXcQ", "https://youtu.be/a-b_c-d_e-Z", "not a video"}
BatchLanguageArgs == {None, Some(<<"es">>)}
BatchWorlds ==
    { World(None, <<Track("es", FALSE), Track("fr", FALSE)>>, None,
            <<Entry(0, 2, "hello"), Entry(2, 3, "world")>>),
      World(Some("VideoUnavailable"), <<>>, None, <<>>),
      World(None, <<>>, None, <<>>) }

RECURSIVE SeqsUpTo(_, _)
SeqsUpTo(S, n) ==
    IF n = 0 THEN {<<>>}
    ELSE LET shorter == SeqsUpTo(S, n - 1)
         IN shorter \cup {Append(q, x) : q \in {r \in shorter : Len(r) = n - 1}, x \in S}

\* a call of get_multiple_video_transcripts(video_urls_or_ids, languages), lines 157-159
Call_get_multiple_video_transcripts ==
    /\ op = "idle"
    /\ \E refs \in SeqsUpTo(BatchReferences, MaxBatch), langs \in BatchLanguageArgs :
          /\ args' = <<refs, langs>>
          /\ batch' = [video_urls_or_ids |-> refs, languages |-> langs, i |-> 1,
                       results |-> <<>>, worlds |-> <<>>, log |-> <<>>]
    /\ op' = "get_multiple_video_transcripts"
    /\ UNCHANGED <<done, ret, raised, tvars, svars, mvars>>

\* lines 160-161: the loop takes the next item and calls get_video_transcript on it
Batch_Call ==
    /\ op = "get_multiple_video_transcripts"
    /\ ~done
    /\ tpc = "idle"
    /\ batch.i <= Len(batch.video_urls_or_ids)
    /\ \E w \in BatchWorlds :
          /\ GVT_Enter(batch.video_urls_or_ids[batch.i], batch.languages, w)
          /\ batch' = [batch EXCEPT !.worlds = Append(@, w),
                                    !.log = Append(@, <<"start", batch.i>>)]
    /\ UNCHANGED <<op, done, ret, raised, args, svars, mvars>>

\* a variant that leaves the loop at the first failed item
Batch_Append_AbortOnFailure ==
    /\ op = "get_multiple_video_transcripts"
    /\ tpc \in {"ret", "raise"}
    /\ IF tpc = "raise"
       THEN /\ raised' = t_exc
            /\ done' = TRUE
            /\ batch' = batch
       ELSE /\ raised' = raised
            /\ done' = done
            /\ batch' = [batch EXCEPT !.results = Append(@, Val(t_result)),
                                      !.log = Append(@, <<"complete", batch.i>>),
                                      !.i = IF Val(t_result).success THEN @ + 1
                                            ELSE Len(batch.video_urls_or_ids) + 1]
    /\ tpc' = "idle"
    /\ UNCHANGED <<op, ret, args, tframe, world, calls, t_result, t_exc, svars, mvars>>

\* line 162: the call returned and its result is appended; the loop has no handler,
\* so an exception of the call would leave get_multiple_video_transcripts
Batch_Append ==
    /\ op = "get_multiple_video_transcripts"
    /\ tpc \in {"ret", "raise"}
    /\ IF tpc = "raise"
       THEN /\ raised' = t_exc
            /\ done' = TRUE
            /\ batch' = batch
       ELSE /\ raised' = raised
            /\ done' = done
            /\ batch' = [batch EXCEPT !.results = Append(@, Val(t_result)),
                                      !.log = Append(@, <<"complete", batch.i>>),
                                      !.i = @ + 1]
    /\ tpc' = "idle"
    /\ UNCHANGED <<op, ret, args, tframe, world, calls, t_result, t_exc, svars, mvars>>

\* lines 164-167: the loop is over
Batch_Return ==
    /\ op = "get_multiple_video_transcripts"
    /\ ~done
    /\ tpc = "idle"
    /\ batch.i > Len(batch.video_urls_or_ids)
    /\ ret' = Some(batch.results)
    /\ done' = TRUE
    /\ UNCHANGED <<op, raised, args, tvars, batch, svars, mvars>>

-----------------------------------------------------------------------------
(* LLMConfig *)

DefaultModel == "gpt-3.5-turbo"
DefaultMaxTokens == "1000"
PlaceholderPrefix == "YOUR_PLACEHOLDER"

LLMConfigOf(model, api_key, base_url, max_tokens) ==
    [kind |-> "LLMConfig", model |-> model, api_key |-> api_key, base_url |-> base_url,
     max_tokens |-> max_tokens]

\* LLMConfig.is_configured, lines 22-28
is_configured(c) ==
    IF startswith(c.model, "ollama/") THEN TRUE
    ELSE c.api_key # None /\ ~startswith(Val(c.api_key), PlaceholderPrefix)

\* int(text) raises ValueError unless text is an integer literal
IsIntLiteral(text) ==
    LET t == strip(text)
    IN /\ Len(t) > 0
       /\ \A i \in 1..Len(t) : Ch(t, i) \in Digit \/ (i = 1 /\ Len(t) > 1 /\ Ch(t, i) \in {"+", "-"})

\* the process environment: each variable unset (None) or set
Env(model, key, url, tokens) ==
    [LLM_MODEL |-> model, LLM_API_KEY |-> key, LLM_BASE_URL |-> url, LLM_MAX_TOKENS |-> tokens]

getenv(e, default) == IF e = None THEN default ELSE Val(e)

\* LLMConfig.__init__, lines 15-20, when int() accepts LLM_MAX_TOKENS
LLMConfigFromEnv(env) ==
    LLMConfigOf(getenv(env.LLM_MODEL, DefaultModel), env.LLM_API_KEY, env.LLM_BASE_URL,
                strip(getenv(env.LLM_MAX_TOKENS, DefaultMaxTokens)))

UnsetEnv == Env(None, None, None, None)

Environments ==
    { UnsetEnv,
      Env(None, Some("sk-live"), None, Some("500")),
      Env(Some("ollama/llama3.2"), None, Some("http://localhost:11434"), None),
      Env(None, Some("YOUR_PLACEHOLDER_LLM_API_KEY"), None, None),
      Env(None, Some(""), None, None),
      Env(None, Some("sk-live"), None, Some("many")) }

Models == {DefaultModel, "ollama/llama3.2", "ollama/", "claude-3-haiku-20240307", "ollama"}
ApiKeys == {None, Some(""), Some("sk-live"), Some("YOUR_PLACEHOLDER_LLM_API_KEY"),
            Some("YOUR_PLACEHOLDER"), Some("your_placeholder"), Some(" ")}

LLMConfigs ==
    {LLMConfigOf(m, k, None, DefaultMaxTokens) : m \in Models, k \in ApiKeys}
    \cup {LLMConfigOf("ollama/mistral", None, Some("http://localhost:11434"), "256")}

\* a call of LLMConfig.is_configured()
Call_is_configured ==
    /\ op = "idle"
    /\ \E c \in LLMConfigs :
          /\ args' = <<c>>
          /\ ret' = Some(is_configured(c))
    /\ op' = "is_configured"
    /\ done' = TRUE
    /\ UNCHANGED <<raised, tvars, batch, svars, mvars>>

-----------------------------------------------------------------------------
(* summarize_text_with_llm *)

PlaceholderPreviewLen == 100

\* create_summarization_prompt, lines 60-92
create_summarization_prompt(text_content, content_type) ==
    IF content_type = "transcript"
    THEN "Please provide a clear and concise summary of this YouTube video transcript. \n"
         \o "Focus on the main points, key insights, and actionable information. \n\n"
         \o "Structure your summary as:\n"
         \o "1. **Main Topic**: Brief description of what the video is about\n"
         \o "2. **Key Points**: 3-5 bullet points of the most important information\n"
         \o "3. **Notable Insights**: Any interesting facts, statistics, or unique perspectives\n"
         \o "4. **Conclusion**: Brief wrap-up of the main takeaway\n\n"
         \o "Transcript:\n" \o text_content \o "\n\nSummary:"
    ELSE "Please provide a clear and concise summary of the following content:\n\n"
         \o text_content \o "\n\nSummary:"

NoTextError == "No text provided for summarization"
NotConfiguredError == "LLM not configured (missing API key or invalid model)"

\* a variant that previews fewer characters
PlaceholderSummary_Short(text) ==
    "[PLACEHOLDER] Summary would be generated for content starting with: '"
    \o Slice(text, PlaceholderPreviewLen - 1) \o "...'"

PlaceholderSummary(text) ==
    "[PLACEHOLDER] Summary would be generated for content starting with: '"
    \o Slice(text, PlaceholderPreviewLen) \o "...'"

SummaryResult(success, error, summary, model_used, tokens_used) ==
    [success |-> success, error |-> error, summary |-> summary,
     model_used |-> model_used, tokens_used |-> tokens_used]

\* the llm_config argument: None, an LLMConfig, or (as main passes) a str
NoneConfig == [kind |-> "None"]
StrConfig(v) == [kind |-> "str", value |-> v]

\* what litellm.completion does with one request
Usage(p, c) == [prompt_tokens |-> p, completion_tokens |-> c, total_tokens |-> p + c]
Responded(content, usage) == [kind |-> "response", content |-> content, usage |-> usage]
Failed(msg) == [kind |-> "error", msg |-> msg]
Completions ==
    { Responded(Some("  The video covers three updates.\n"), Some(Usage(120, 30))),
      Responded(Some("Summary."), None),
      Responded(None, None),
      [kind |-> "no_choices"],
      Failed("AuthenticationError: invalid api key"),
      Failed("RateLimitError: quota exceeded"),
      Failed("APIConnectionError: connection refused") }

Request(c, prompt) ==
    [model |-> c.model,
     messages |-> <<[role |-> "user", content |-> prompt]>>,
     max_tokens |-> c.max_tokens,
     api_key |-> IF c.api_key # None /\ Val(c.api_key) # "" /\ ~startswith(c.model, "ollama/")
                 THEN c.api_key ELSE None,
     api_base |-> IF c.base_url # None /\ Val(c.base_url) # "" THEN c.base_url ELSE None]

SummarizeTexts ==
    {"", "   ", " \n\t ", "Channel A uploaded a new video.", "  padded  ",
     Rep("0123456789", 10), Rep("abcdefghij", 10) \o "K", Rep("xyz ", 40)}

ContentTypes == {"transcript", "article"}

NoSFrame == [text_to_summarize |-> "", llm_config |-> NoneConfig, content_type |-> "transcript"]

S_Enter(text, config, content_type, env) ==
    /\ sframe' = [text_to_summarize |-> text, llm_config |-> config,
                  content_type |-> content_type]
    /\ llm' = [env |-> env]
    /\ requests' = <<>>
    /\ s_result' = None
    /\ s_exc' = None
    /\ spc' = "check_text"

\* a variant that tests the text for emptiness only, without strip()
S_CheckText_NoStrip ==
    /\ spc = "check_text"
    /\ IF sframe.text_to_summarize = ""
       THEN /\ s_result' = Some(SummaryResult(FALSE, Some(NoTextError), None, None, None))
            /\ spc' = "ret"
       ELSE /\ s_result' = None
            /\ spc' = "check_config"
    /\ UNCHANGED <<sframe, llm, requests, s_exc>>

\* lines 106-116
S_CheckText ==
    /\ spc = "check_text"
    /\ IF sframe.text_to_summarize = "" \/ strip(sframe.text_to_summarize) = ""
       THEN /\ s_result' = Some(SummaryResult(FALSE, Some(NoTextError), None, None, None))
            /\ spc' = "ret"
       ELSE /\ s_result' = None
            /\ spc' = "check_config"
    /\ UNCHANGED <<sframe, llm, requests, s_exc>>

\* lines 118-130
S_CheckConfig ==
    /\ spc = "check_config"
    /\ LET given == sframe.llm_config
           built == given.kind = "None"
       IN IF built /\ ~IsIntLiteral(getenv(llm.env.LLM_MAX_TOKENS, DefaultMaxTokens))
          THEN /\ s_exc' = Some("ValueError: invalid literal for int() with base 10")
               /\ s_result' = None
               /\ sframe' = sframe
               /\ spc' = "raise"
          ELSE IF given.kind = "str"
          THEN /\ s_exc' = Some("AttributeError: 'str' object has no attribute 'is_configured'")
               /\ s_result' = None
               /\ sframe' = sframe
               /\ spc' = "raise"
          ELSE LET c == IF built THEN LLMConfigFromEnv(llm.env) ELSE given
               IN /\ sframe' = [sframe EXCEPT !.llm_config = c]
                  /\ s_exc' = None
                  /\ IF ~is_configured(c)
                     THEN /\ s_result' = Some(SummaryResult(FALSE, Some(NotConfiguredError),
                                   Some(PlaceholderSummary(sframe.text_to_summarize)),
                                   Some(c.model), None))
                          /\ spc' = "ret"
                     ELSE /\ s_result' = None
                          /\ spc' = "dispatch"
    /\ UNCHANGED <<llm, requests>>

\* lines 132-190: the request, and the response's normalisation or the handler
Completion(c, answer) ==
    IF answer.kind = "error"
    THEN SummaryResult(FALSE, Some(answer.msg), None, Some(c.model), None)
    ELSE IF answer.kind = "no_choices"
    THEN SummaryResult(FALSE, Some("list index out of range"), None, Some(c.model), None)
    ELSE IF answer.content = None
    THEN SummaryResult(FALSE, Some("'NoneType' object has no attribute 'strip'"), None,
                       Some(c.model), None)
    ELSE SummaryResult(TRUE, None, Some(strip(Val(answer.content))), Some(c.model),
                       answer.usage)

\* a variant that sends the request a second time when the provider fails
S_Dispatch_Retry ==
    /\ spc = "dispatch"
    /\ \E answer \in Completions :
          LET request == Request(sframe.llm_config,
                                 create_summarization_prompt(sframe.text_to_summarize,
                                                             sframe.content_type))
          IN /\ requests' = IF answer.kind = "error"
                            THEN requests \o <<request, request>>
                            ELSE Append(requests, request)
             /\ llm' = [env |-> llm.env, answer |-> answer]
             /\ s_result' = Some(Completion(sframe.llm_config, answer))
    /\ spc' = "ret"
    /\ UNCHANGED <<sframe, s_exc>>

S_Dispatch ==
    /\ spc = "dispatch"
    /\ \E answer \in Completions :
          /\ requests' = Append(requests,
                Request(sframe.llm_config,
                        create_summarization_prompt(sframe.text_to_summarize,
                                                    sframe.content_type)))
          /\ llm' = [env |-> llm.env, answer |-> answer]
          /\ s_result' = Some(Completion(sframe.llm_config, answer))
    /\ spc' = "ret"
    /\ UNCHANGED <<sframe, s_exc>>

notS == <<op, done, ret, raised, args, tvars, batch, mvars>>

Step_check_text == S_CheckText /\ UNCHANGED notS
Step_check_config == S_CheckConfig /\ UNCHANGED notS
Step_completion == S_Dispatch /\ UNCHANGED notS

SummarizeConfigs ==
    {NoneConfig, StrConfig("YOUR_PLACEHOLDER_LLM_API_KEY"),
     LLMConfigOf(DefaultModel, None, None, DefaultMaxTokens),
     LLMConfigOf(DefaultModel, Some("YOUR_PLACEHOLDER_LLM_API_KEY"), None, DefaultMaxTokens),
     LLMConfigOf(DefaultModel, Some("sk-live"), None, DefaultMaxTokens),
     LLMConfigOf("ollama/llama3.2", None, Some("http://localhost:11434"), "256")}

\* a call of summarize_text_with_llm(text_to_summarize, llm_config, content_type)
Call_summarize_text_with_llm ==
    /\ op = "idle"
    /\ \E text \in SummarizeTexts, config \in SummarizeConfigs, ct \in ContentTypes,
          env \in Environments :
          /\ config.kind # "None" => env = UnsetEnv
          /\ args' = <<text, config, ct>>
          /\ S_Enter(text, config, ct, env)
    /\ op' = "summarize_text_with_llm"
    /\ UNCHANGED <<done, ret, raised, tvars, batch, mvars>>

Return_summarize_text_with_llm ==
    /\ op = "summarize_text_with_llm"
    /\ spc \in {"ret", "raise"}
    /\ ret' = s_result
    /\ raised' = s_exc
    /\ done' = TRUE
    /\ spc' = "idle"
    /\ UNCHANGED <<op, args, sframe, llm, requests, s_result, s_exc, tvars, batch, mvars>>

-----------------------------------------------------------------------------
(* get_subscriber_updates and main *)

Update(c, t, k) == [channel_name |-> c, update_title |-> t, type |-> k]

PlaceholderUpdates ==
    << Update("Example Channel 1", "New Video Uploaded!", "upload"),
       Update("Example Channel 2", "Check out our latest community post!", "bulletin") >>

\* youtube_api.get_subscriber_updates, lines 9-32; fault: the try block raised
get_subscriber_updates(api_key, fault) ==
    IF api_key = "" THEN <<>>
    ELSE IF fault THEN <<>>
    ELSE PlaceholderUpdates

YoutubeApiKey == "YOUR_PLACEHOLDER_YOUTUBE_API_KEY"
LlmApiKey == "YOUR_PLACEHOLDER_LLM_API_KEY"
NoUpdatesText == "No new updates were found from your subscriptions to summarize."
ReportHeader == "\n---Generated Report Summary---"
ReportFooter == "---End of Report---"

\* main.py line 35
update_line(u) ==
    "- Channel: " \o u.channel_name \o ", Title: " \o u.update_title
    \o " (Type: " \o u.type \o ")"

RECURSIVE UpdateLines(_)
UpdateLines(updates) ==
    IF updates = <<>> THEN <<>>
    ELSE <<update_line(Head(updates))>> \o UpdateLines(Tail(updates))

RECURSIVE JoinLines(_)
JoinLines(lines) ==
    IF lines = <<>> THEN "" ELSE Head(lines) \o "\n" \o JoinLines(Tail(lines))

OptStr(o) == IF o = None THEN "None" ELSE "'" \o Val(o) \o "'"

\* str() of the dict summarize_text_with_llm returns, as print shows it
DictStr(d) ==
    "{'success': " \o (IF d.success THEN "True" ELSE "False")
    \o ", 'error': " \o OptStr(d.error)
    \o ", 'summary': " \o OptStr(d.summary)
    \o ", 'model_used': " \o OptStr(d.model_used)
    \o ", 'tokens_used': " \o (IF d.tokens_used = None THEN "None"
                              ELSE ToString(Val(d.tokens_used))) \o "}"

\* a run of main(), line 18
Call_main ==
    /\ op = "idle"
    /\ op' = "main"
    /\ args' = <<>>
    /\ mpc' = "updates"
    /\ mframe' = [subscriber_updates |-> <<>>, updates_text_block |-> ""]
    /\ output' = <<>>
    /\ UNCHANGED <<done, ret, raised, tvars, batch, svars>>

\* lines 20-25
Main_GetUpdates ==
    /\ mpc = "updates"
    /\ \E fault \in BOOLEAN :
          mframe' = [mframe EXCEPT
                        !.subscriber_updates = get_subscriber_updates(YoutubeApiKey, fault)]
    /\ mpc' = "prepare"
    /\ UNCHANGED <<op, done, ret, raised, args, output, tvars, batch, svars>>

\* lines 27-43
Main_Prepare ==
    /\ mpc = "prepare"
    /\ LET lines == UpdateLines(mframe.subscriber_updates)
           block == JoinLines(lines)
       IN IF strip(block) = ""
          THEN /\ mframe' = [mframe EXCEPT !.updates_text_block = NoUpdatesText]
               /\ output' = output \o lines \o <<NoUpdatesText>>
          ELSE /\ mframe' = [mframe EXCEPT !.updates_text_block = block]
               /\ output' = output \o lines
    /\ mpc' = "summarize"
    /\ UNCHANGED <<op, done, ret, raised, args, tvars, batch, svars>>

\* lines 45-50: the key string is passed where summarize_text_with_llm takes llm_config
Main_CallSummarize ==
    /\ mpc = "summarize"
    /\ \E env \in Environments :
          S_Enter(mframe.updates_text_block, StrConfig(LlmApiKey), "transcript", env)
    /\ mpc' = "summarizing"
    /\ UNCHANGED <<op, done, ret, raised, args, mframe, output, tvars, batch>>

\* lines 50-58: the call returned and the report is printed, or its exception leaves main;
\* the dict the call returns is never empty, so line 55 prints the dict itself
Main_Report ==
    /\ op = "main"
    /\ mpc = "summarizing"
    /\ spc \in {"ret", "raise"}
    /\ IF spc = "raise"
       THEN /\ raised' = s_exc
            /\ ret' = None
            /\ output' = output
            /\ mpc' = "aborted"
       ELSE /\ raised' = None
            /\ ret' = Some("None")
            /\ output' = output \o <<ReportHeader, DictStr(Val(s_result)), ReportFooter>>
            /\ mpc' = "end"
    /\ done' = TRUE
    /\ spc' = "idle"
    /\ UNCHANGED <<op, args, mframe, sframe, llm, requests, s_result, s_exc, tvars, batch>>

Init ==
    /\ op = "idle" /\ done = FALSE /\ ret = None /\ raised = None
    /\ args = <<>>
    /\ tpc = "idle" /\ tframe = NoTFrame /\ world = NoWorld /\ calls = <<>>
    /\ t_result = None /\ t_exc = None
    /\ batch = <<>>
    /\ spc = "idle" /\ sframe = NoSFrame /\ llm = [env |-> UnsetEnv] /\ requests = <<>>
    /\ s_result = None /\ s_exc = None
    /\ mpc = "idle" /\ mframe = <<>> /\ output = <<>>

Next ==
    \/ Call_extract_video_id
    \/ Call_get_video_transcript
    \/ Step_list_transcripts
    \/ Step_find_transcript
    \/ Step_fallback
    \/ Step_fetch
    \/ Return_get_video_transcript
    \/ Call_get_multiple_video_transcripts
    \/ Batch_Call
    \/ Batch_Append
    \/ Batch_Return
    \/ Call_is_configured
    \/ Call_summarize_text_with_llm
    \/ Step_check_text
    \/ Step_check_config
    \/ Step_completion
    \/ Return_summarize_text_with_llm
    \/ Call_main
    \/ Main_GetUpdates
    \/ Main_Prepare
    \/ Main_CallSummarize
    \/ Main_Report

Spec == Init /\ [][Next]_vars

-----------------------------------------------------------------------------
(* Properties *)

Min(S) == CHOOSE x \in S : \A y \in S : x <= y

IsBlank(text) == \A i \in 1..Len(text) : Ch(text, i) \in Whitespace

\* C1: a run of main ends having printed the 'Generated Report Summary' block,
\* and no exception leaves main, whatever the update feed and the completion
\* configuration are.
C1_MainAlwaysReports ==
    (op = "main" /\ done) =>
        /\ raised = None
        /\ \E k \in 1..Len(output) : output[k] = ReportHeader

\* C2: every non-null value extract_video_id returns is a canonical identifier:
\* 11 characters of A-Z, a-z, 0-9, '_' and '-'.
C2_ResolvedIsCanonical ==
    (op = "extract_video_id" /\ done /\ Val(ret) # None) => IsCanonical(Val(Val(ret)))

\* C3: is_configured() is true exactly when the model starts with 'ollama/' or the
\* API key is present, non-empty and does not start with 'YOUR_PLACEHOLDER'.
C3_IsConfiguredIff ==
    (op = "is_configured" /\ done) =>
        LET c == args[1]
        IN Val(ret) <=>
              \/ startswith(c.model, "ollama/")
              \/ /\ c.api_key # None
                 /\ Val(c.api_key) # ""
                 /\ ~startswith(Val(c.api_key), "YOUR_PLACEHOLDER")

-----------------------------------------------------------------------------

\* the provider calls of the running get_video_transcript call that failed
FailedCalls(fns) == {k \in 1..Len(calls) : ~calls[k].ok /\ calls[k].fn \in fns}

ReportsFailure(result, msg) ==
    /\ result.success = FALSE
    /\ result.transcript = None
    /\ result.error = Some(msg)

\* C4 as stated: get_video_transcript never raises, and a provider failure at any
\* step (listing tracks, selecting a track, fetching entries) makes it return
\* success=false, transcript null and error equal to the provider's message.
C4_AnyFailureIsReported ==
    (op = "get_video_transcript" /\ done) =>
        /\ raised = None
        /\ ret # None
        /\ \A k \in FailedCalls({"list_transcripts", "find_transcript",
                                 "find_generated_transcript", "fetch"}) :
              ReportsFailure(Val(ret), calls[k].msg)

\* C4 as amended: get_video_transcript never raises; a provider failure while
\* listing the tracks or fetching the chosen track's entries makes it return
\* success=false, transcript null and error equal to the provider's message; a
\* failure while selecting a track is not reported: the next preference or the
\* fallback is tried.
C4_ListOrFetchFailureIsReported ==
    /\ (op = "get_video_transcript" /\ done) =>
          /\ raised = None
          /\ ret # None
          /\ \A k \in FailedCalls({"list_transcripts", "fetch"}) :
                ReportsFailure(Val(ret), calls[k].msg)
    /\ \A k \in FailedCalls({"find_transcript", "find_generated_transcript"}) :
          \/ k < Len(calls)
          \/ tpc = "prefs"

C4_Witness ==
    /\ op = "get_video_transcript" /\ done
    /\ FailedCalls({"find_transcript"}) # {}
    /\ FailedCalls({"fetch"}) # {}
    /\ ReportsFailure(Val(ret), "RequestBlocked")

-----------------------------------------------------------------------------

HasTrack(lang) == \E k \in 1..Len(world.tracks) : world.tracks[k].language_code = lang

\* the positions of the preference list whose language has an available track
Matching == {i \in 1..Len(tframe.languages) : HasTrack(tframe.languages[i])}

Listed == calls # <<>> /\ calls[1].fn = "list_transcripts" /\ calls[1].ok

Negotiated == tpc \in {"fetch", "ret", "idle"}

\* calls[2..n+1] are the failed find_transcript calls for the first n preferences
PreferencesFailed(n) ==
    /\ Len(calls) >= n + 1
    /\ \A j \in 1..n :
          /\ calls[j + 1].fn = "find_transcript"
          /\ calls[j + 1].arg = tframe.languages[j]
          /\ ~calls[j + 1].ok

\* C5: when a preferred language has an available track, the track of the earliest
\* such language in the list is selected, the preferences before it were tried in
\* order, and no later preference and no fallback is tried after the first success.
C5_PreferenceOrder ==
    /\ (Listed /\ tpc = "prefs") =>
          /\ PreferencesFailed(tframe.lang_i - 1)
          /\ Len(calls) = tframe.lang_i
          /\ \A i \in Matching : tframe.lang_i <= i
    /\ (Listed /\ Negotiated /\ Matching # {}) =>
          LET m == Min(Matching)
          IN /\ PreferencesFailed(m - 1)
             /\ Len(calls) >= m + 1
             /\ calls[m + 1] = Call("find_transcript", tframe.languages[m], TRUE, "")
             /\ \A k \in (m + 2)..Len(calls) : calls[k].fn = "fetch"
             /\ tframe.used_language = Some(tframe.languages[m])
             /\ world.tracks[tframe.transcript].language_code = tframe.languages[m]
             /\ (t_result # None /\ Val(t_result).success) =>
                   Val(t_result).language = Some(tframe.languages[m])

C5_Witness ==
    /\ op = "get_video_transcript" /\ done
    /\ world.tracks = <<Track("es", FALSE), Track("fr", FALSE)>>
    /\ tframe.languages = <<"en", "es">>
    /\ Val(ret).success
    /\ Val(ret).language = Some("es")

EnglishGenerated ==
    {k \in 1..Len(world.tracks) :
        world.tracks[k].language_code = "en" /\ world.tracks[k].is_generated}

NoFetch == \A k \in 1..Len(calls) : calls[k].fn # "fetch"

\* C6: when no preferred language matches, the machine-generated English track is
\* taken if there is one; otherwise the first enumerated track, with its own
\* language code recorded; and with zero tracks the call returns success=false
\* with the error 'No transcripts available for this video' and fetches nothing.
C6_FallbackOrder ==
    (Listed /\ Negotiated /\ Matching = {}) =>
        LET n == Len(tframe.languages)
        IN /\ PreferencesFailed(n)
           /\ Len(calls) >= n + 2
           /\ calls[n + 2].fn = "find_generated_transcript"
           /\ IF EnglishGenerated # {}
              THEN /\ calls[n + 2].ok
                   /\ tframe.transcript \in EnglishGenerated
                   /\ tframe.used_language = Some("en (auto-generated)")
                   /\ \A k \in (n + 3)..Len(calls) : calls[k].fn = "fetch"
              ELSE /\ ~calls[n + 2].ok
                   /\ Len(calls) >= n + 3
                   /\ calls[n + 3].fn = "iterate"
                   /\ IF world.tracks # <<>>
                      THEN /\ tframe.transcript = 1
                           /\ tframe.used_language = Some(world.tracks[1].language_code)
                           /\ \A k \in (n + 4)..Len(calls) : calls[k].fn = "fetch"
                           /\ (t_result # None /\ Val(t_result).success) =>
                                 Val(t_result).language = Some(world.tracks[1].language_code)
                      ELSE /\ t_result # None
                           /\ Val(t_result).success = FALSE
                           /\ Val(t_result).error = Some("No transcripts available for this video")
                           /\ Val(t_result).transcript = None
                           /\ NoFetch
                           /\ tpc # "fetch"

C6_Witness ==
    /\ op = "get_video_transcript" /\ done
    /\ Matching = {} /\ Listed
    /\ world.tracks = <<Track("fr", FALSE), Track("en", TRUE)>>
    /\ tframe.transcript = 2
    /\ Val(ret).success

-----------------------------------------------------------------------------

BatchOp == op = "get_multiple_video_transcripts"

\* the log is start 1, complete 1, start 2, complete 2, ...
BatchLogSequential ==
    \A k \in 1..Len(batch.log) :
        batch.log[k] = <<IF k % 2 = 1 THEN "start" ELSE "complete", (k + 1) \div 2>>

\* what the item's reference and the provider's behaviour for it make of the item
ItemOutcome(ref, w, r) ==
    /\ r.video_id = extract_video_id(ref)
    /\ IF extract_video_id(ref) = None
       THEN r.success = FALSE /\ r.error = Some("Invalid YouTube URL or video ID")
       ELSE IF w.list_error # None THEN r.success = FALSE /\ r.error = w.list_error
       ELSE IF w.tracks = <<>>
       THEN r.success = FALSE /\ r.error = Some("No transcripts available for this video")
       ELSE IF w.fetch_error # None THEN r.success = FALSE /\ r.error = w.fetch_error
       ELSE r.success = TRUE /\ r.error = None /\ r.transcript # None

\* C7: get_multiple_video_transcripts returns one result per reference, in input
\* order; an item is started only after the one before it has completed; a failing
\* item gives success=false at its own position, does not end the batch and does
\* not change the other items' results.
C7_BatchSequential ==
    BatchOp =>
        LET refs == batch.video_urls_or_ids
        IN /\ BatchLogSequential
           /\ batch.i <= Len(refs) + 1
           /\ Len(batch.results) = batch.i - 1
           /\ Len(batch.worlds) = batch.i - (IF tpc = "idle" THEN 1 ELSE 0)
           /\ Len(batch.log) = Len(batch.results) + Len(batch.worlds)
           /\ \A j \in 1..Len(batch.results) :
                 ItemOutcome(refs[j], batch.worlds[j], batch.results[j])
           /\ done => /\ raised = None
                      /\ ret = Some(batch.results)
                      /\ Len(batch.results) = Len(refs)
           /\ tpc \in {"idle", "list", "prefs", "fetch", "ret"}
           /\ tpc = "fetch" => tframe.transcript \in 1..Len(world.tracks)

C7_Witness ==
    /\ BatchOp /\ done
    /\ Len(Val(ret)) = 3
    /\ Val(ret)[1].success /\ ~Val(ret)[2].success /\ Val(ret)[3].success

-----------------------------------------------------------------------------

\* summarize_text_with_llm has been called, by the entry point or by main
Summarizing ==
    /\ op \in {"summarize_text_with_llm", "main"}
    /\ spc # "idle" \/ done

\* C8: with empty or all-whitespace text the call returns success=false, the error
\* 'No text provided for summarization' and a null summary whatever llm_config is:
\* the configuration is not looked at and no request is dispatched.
C8_BlankText ==
    (Summarizing /\ IsBlank(sframe.text_to_summarize)) =>
        /\ spc \in {"check_text", "ret", "idle"}
        /\ requests = <<>>
        /\ s_exc = None
        /\ spc # "check_text" =>
              /\ s_result # None
              /\ Val(s_result).success = FALSE
              /\ Val(s_result).error = Some("No text provided for summarization")
              /\ Val(s_result).summary = None
        /\ done => (raised = None /\ ret = s_result)

C8_Witness ==
    /\ op = "summarize_text_with_llm" /\ done
    /\ args[1] = " \n\t "
    /\ args[2].kind = "LLMConfig" /\ ~is_configured(args[2])
    /\ Val(ret).summary = None

\* the first 100 characters of the text, the whole text when it is shorter
First100(text) == SubSeq(text, 1, IF Len(text) <= 100 THEN Len(text) ELSE 100)

Unconfigured(c) == c.kind = "LLMConfig" /\ ~is_configured(c)

\* C9: with non-blank text and a configuration whose is_configured() is false the
\* call returns success=false, a non-null error and a non-null placeholder summary
\* that contains the first 100 characters of the text; no request is dispatched.
C9_UnconfiguredPlaceholder ==
    (Summarizing /\ ~IsBlank(sframe.text_to_summarize) /\ Unconfigured(sframe.llm_config)) =>
        /\ spc \in {"check_text", "check_config", "ret", "idle"}
        /\ requests = <<>>
        /\ s_exc = None
        /\ spc \in {"ret", "idle"} =>
              /\ s_result # None
              /\ Val(s_result).success = FALSE
              /\ Val(s_result).error # None
              /\ Val(s_result).summary # None
              /\ Contains(Val(Val(s_result).summary), First100(sframe.text_to_summarize))

C9_Witness ==
    /\ op = "summarize_text_with_llm" /\ done
    /\ Len(args[1]) > 100
    /\ Unconfigured(sframe.llm_config)
    /\ Val(ret).summary # None
    /\ ~Contains(Val(Val(ret).summary), args[1])

\* C10: a call dispatches at most one request; when that request fails, no second
\* one is dispatched and the call returns success=false, the provider's message as
\* error, summary null and tokens_used null.
C10_SingleAttempt ==
    Summarizing =>
        /\ Len(requests) <= 1
        /\ requests # <<>> =>
              /\ s_exc = None
              /\ s_result # None
              /\ llm.answer.kind = "error" =>
                    Val(s_result) = SummaryResult(FALSE, Some(llm.answer.msg), None,
                                                  Some(sframe.llm_config.model), None)
              /\ (llm.answer.kind = "no_choices"
                    \/ (llm.answer.kind = "response" /\ llm.answer.content = None)) =>
                    /\ Val(s_result).success = FALSE
                    /\ Val(s_result).error # None
                    /\ Val(s_result).summary = None
                    /\ Val(s_result).tokens_used = None

C10_Witness ==
    /\ op = "summarize_text_with_llm" /\ done
    /\ Len(requests) = 1
    /\ llm.answer.kind = "error"
    /\ Val(ret).error = Some("RateLimitError: quota exceeded")

-----------------------------------------------------------------------------

\* the four reference shapes of one identifier
Shapes(id) ==
    {"https://www.youtube.com/watch?v=" \o id, "https://youtu.be/" \o id,
     "https://www.youtube.com/embed/" \o id, id}

\* C11: for the watch?v= URL, the short youtu.be URL, the embed URL and the bare
\* ID built from one 11-character canonical ID, extract_video_id returns exactly
\* that ID.
C11_FourShapes ==
    (op = "extract_video_id" /\ done) =>
        \A id \in SampleIds :
            (IsCanonical(id) /\ args[1] \in Shapes(id)) => Val(ret) = Some(id)

C11_Witness ==
    /\ op = "extract_video_id" /\ done
    /\ args[1] = "https://www.youtube.com/embed/stuvwxyz-_-"
    /\ Val(ret) = Some("stuvwxyz-_-")

\* the string matches one of the two URL patterns somewhere
MatchesUrlPattern(url) == ReSearch1(url) # None \/ ReSearch2(url) # None

\* C12: extract_video_id returns None for every string that neither matches one of
\* the URL patterns nor is itself exactly 11 characters of the canonical alphabet.
C12_OtherwiseNone ==
    (op = "extract_video_id" /\ done
        /\ ~MatchesUrlPattern(args[1]) /\ ~IsCanonical(args[1])) =>
        Val(ret) = None

-----------------------------------------------------------------------------

\* get_video_transcript has been entered with a reference that does not resolve
UnresolvedCall == tframe.lang_i # 0 /\ extract_video_id(tframe.video_url_or_id) = None

InvalidResult(msg) ==
    [success |-> FALSE, error |-> Some(msg), video_id |-> None, transcript |-> None,
     language |-> None]

\* C13 as stated: with a reference that cannot be resolved the call returns
\* success=false, error "Invalid video reference", video id and transcript null,
\* and the transcript provider is not queried.
C13_InvalidVideoReference ==
    UnresolvedCall =>
        /\ calls = <<>>
        /\ t_result = Some(InvalidResult("Invalid video reference"))

\* C13 as amended: with a reference that cannot be resolved the call returns
\* success=false, error "Invalid YouTube URL or video ID", video id and transcript
\* null, and the transcript provider is not queried.
C13_InvalidReference ==
    UnresolvedCall =>
        /\ calls = <<>>
        /\ tpc \in {"ret", "idle"}
        /\ t_exc = None
        /\ t_result = Some(InvalidResult("Invalid YouTube URL or video ID"))
        /\ (op = "get_video_transcript" /\ done) => (ret = t_result /\ raised = None)

C13_Witness ==
    /\ op = "get_video_transcript" /\ done
    /\ args[1] = "not a video"
    /\ calls = <<>>
    /\ Val(ret).error = Some("Invalid YouTube URL or video ID")
    /\ Val(ret).video_id = None

-----------------------------------------------------------------------------

TranscriptConsistent(r) ==
    /\ r.success <=> r.error = None
    /\ r.success => r.transcript # None
    /\ ~r.success => r.transcript = None

SummaryConsistent(r) ==
    /\ r.success <=> r.error = None
    /\ r.success => r.summary # None

\* C14: every dict get_video_transcript or summarize_text_with_llm returns has
\* success=true exactly when error is null, and then a non-null text; a failed
\* transcript dict has a null transcript; a failed summary dict has a non-null
\* summary only on the not-configured path.
C14_ResultsConsistent ==
    /\ t_result # None => TranscriptConsistent(Val(t_result))
    /\ BatchOp => \A j \in 1..Len(batch.results) : TranscriptConsistent(batch.results[j])
    /\ (op = "get_video_transcript" /\ ret # None) => TranscriptConsistent(Val(ret))
    /\ (op = "summarize_text_with_llm" /\ ret # None) => SummaryConsistent(Val(ret))
    /\ s_result # None =>
          /\ SummaryConsistent(Val(s_result))
          /\ (~Val(s_result).success /\ Val(s_result).summary # None) =>
                /\ Unconfigured(sframe.llm_config)
                /\ requests = <<>>
                /\ Val(s_result).error =
                      Some("LLM not configured (missing API key or invalid model)")

C14_Witness ==
    /\ op = "summarize_text_with_llm" /\ done
    /\ ~Val(ret).success
    /\ Val(ret).summary # None
    /\ Val(ret).error # None

====
